---- MODULE Spec2Model ----
(***************************************************************************)
(* Download ledger, reconciliation pass and background copy task of        *)
(* privateer (src-tauri/src/lib.rs) together with the add_download         *)
(* command that shares the ledger file with the background task.           *)
(***************************************************************************)
EXTENDS Integers, Sequences, FiniteSets, TLC

VARIABLES
    file,       \* contents of downloads.json (a sequence of DownloadEntry)
    mem,        \* App.downloads_ledger, the in-memory ledger of the commands
    cfgFile,    \* contents of transmission_config.json
    dstFs,      \* what exists under the destination directories
    permit,     \* the stored permit of copy_notify (tokio Notify)
    pc,         \* position of copy_task_from_disk
    config,     \* the task's `config` of the current cycle
    ledger,     \* the task's `ledger` of the current cycle
    torrents,   \* the task's `transmission_torrents` of the current cycle
    pending,    \* the part of `pending` the for loop has not reached yet
    cur,        \* idx of the entry being copied (0: none)
    prog,       \* steps of copy_recursive_async done for the running copy
    copyOk,     \* result of copy_recursive_async
    crashed,    \* whether the process has been restarted
    ev,         \* the last step taken: kind, entry, result of its save
    log,        \* outcome of every entry the for loop handled this cycle
    snap,       \* ledger file and destinations as the cycle found them
    saveFailed, \* whether a save of the task has failed since the start
    adds,       \* number of add_download calls so far
    faults,     \* number of failed saves, failed deletions and crashes
    saved,      \* the ledger the task passed to its last save_ledger call
    nsaves,     \* number of save_ledger calls of the task in this cycle
    memCfg,     \* App.transmission_config, the configuration of the commands
    tree,       \* the file system copy_recursive_async reads and writes
    setCall,    \* the argument of a set_transmission_config call that has
                \* saved the file and waits for the lock (<<>>: no call)
    category    \* the category code Destination::from_category is given

vars == <<file, mem, cfgFile, dstFs, permit, pc, config, ledger,
          torrents, pending, cur, prog, copyOk, crashed, ev, log, snap,
          saveFailed, adds, faults, saved, nsaves, memCfg, tree,
          setCall, category>>

-----------------------------------------------------------------------------
(* Bounds of the model *)

\* add_download calls in one run
MaxAdds == 2
\* failed saves, failed deletions and process crashes in one run
MaxFaults == 1
\* number of files in a source directory (a multi-file torrent)
SrcFiles == 2

-----------------------------------------------------------------------------
(* Values *)

None == "None"

Destinations == {"Movies", "Shows"}

CopyStates == {"NotCopied", "Copying", "Copied", "Failed"}

\* the calls of add_download: info hash and destination
AddInputs == { <<"A", "Movies">>, <<"A", "Shows">>, <<"b", "Movies">> }

NameOf(h) == IF h \in {"a", "A"} THEN "x" ELSE "y"

\* str::eq_ignore_ascii_case on the hashes of the model
Lower(h) == IF h = "A" THEN "a" ELSE IF h = "B" THEN "b" ELSE h

eq_ignore_ascii_case(x, y) == Lower(x) = Lower(y)

DownloadEntry(h, n, d, s) ==
    [info_hash |-> h, name |-> n, destination |-> d, copy_state |-> s]

\* TransmissionConfig: host and the two destination directories
Config(h, m, s) == [host |-> h, movies_dir |-> m, shows_dir |-> s]

DefaultConfig == Config("localhost", None, None)

Configs ==
    { Config("localhost", "m", "s"),
      Config("localhost", "", None),
      Config("", "m", "s") }

\* names present in the working directory, where a relative path resolves
CwdEntries == {"y"}

\* the names of the torrents of the model
Names == {"x", "y"}

DestPaths == {"m", "s"} \X Names

NoDst == [p \in DestPaths |-> "none"]

\* a path of the file system at which nothing exists
Absent == [kind |-> "none"]

InitDst == { NoDst, [NoDst EXCEPT ![<<"m", "x">>] = "full"] }

\* what exists under the daemon's download directories: nothing under "dl2"
SrcEntries == { <<"dl", "x">>, <<"dl", "y">> }

\* a torrent of the daemon's torrent-get response; percent_done is an
\* Option of a percentage: <<>> is None, <<100>> is Some(1.0)
Torrent(h, n, p, d) ==
    [hash_string |-> h, name |-> n, percent_done |-> p, download_dir |-> d]

Responses ==
    { <<Torrent("a", "x", <<100>>, "dl")>>,
      <<Torrent("a", "x", <<100>>, "dl"), Torrent("b", "y", <<100>>, "dl")>>,
      <<Torrent("a", "x", <<50>>, "dl"), Torrent("b", "y", <<100>>, None)>>,
      <<Torrent("a", None, <<100>>, "dl"), Torrent(None, "y", <<>>, "dl")>>,
      <<Torrent("a", "x", <<100>>, "dl2"), Torrent("b", "y", <<100>>, "dl")>> }

\* the fault count after an I/O operation with result ok
Fault(n, ok) == IF ok THEN n ELSE n + 1

\* kind of the step, the entry it handled, the result of its save and of
\* its deletion
Ev(k, h, ok) == [kind |-> k, hash |-> h, ok |-> ok, rm |-> TRUE]

\* an add_download call: its info_hash, its destination, the result of its
\* save
AddEv(h, d, ok) ==
    [kind |-> "add", hash |-> h, ok |-> ok, rm |-> TRUE, dest |-> d]

Snap(l, fs, p) == [ledger |-> l, dst |-> fs, pending |-> p]

\* outcomes of one torrent_get call
FetchOutcome(st, ts) == [status |-> st, torrents |-> ts]

AllFetches ==
    { FetchOutcome("transport", <<>>), FetchOutcome("rpc", <<>>) }
        \cup { FetchOutcome("ok", r) : r \in Responses }

-----------------------------------------------------------------------------
(* Helpers of the commands and of the task *)

unwrap_or(opt, d) == IF opt = <<>> THEN d ELSE opt[1]

dir_for(cfg, dest) ==
    IF dest = "Movies" THEN cfg.movies_dir ELSE cfg.shows_dir

\* Path::exists of PathBuf::from(dir).join(name); with dir = "" the path is
\* relative and resolves in the working directory; with name = "" the path
\* is the directory itself, which exists at least when it holds something
PathExists(fs, dir, name) ==
    IF dir = "" THEN name \in CwdEntries
    ELSE IF name = "" THEN \E n \in Names : fs[<<dir, n>>] # "none"
    ELSE fs[<<dir, name>>] # "none"

check_already_copied(fs, cfg, dest, name) ==
    LET dir == dir_for(cfg, dest)
    IN  IF dir # None THEN PathExists(fs, dir, name) ELSE FALSE

\* mutant: the test that the directory is not empty is missing
DetectAtEmptyAllowed(fs, cfg, dest, name) ==
    LET dir == dir_for(cfg, dest)
    IN  dir # None /\ PathExists(fs, dir, name)

DetectAt(fs, cfg, dest, name) ==
    LET dir == dir_for(cfg, dest)
    IN  dir # None /\ dir # "" /\ PathExists(fs, dir, name)

\* mutant: Shows is probed before Movies
detect_destinationShowsFirst(fs, cfg, name) ==
    IF DetectAt(fs, cfg, "Shows", name) THEN <<"Shows", "Copied">>
    ELSE IF DetectAt(fs, cfg, "Movies", name) THEN <<"Movies", "Copied">>
    ELSE <<>>

\* Some((dest, Copied)) is <<dest, "Copied">>, None is <<>>
detect_destination(fs, cfg, name) ==
    IF DetectAt(fs, cfg, "Movies", name) THEN <<"Movies", "Copied">>
    ELSE IF DetectAt(fs, cfg, "Shows", name) THEN <<"Shows", "Copied">>
    ELSE <<>>

\* position of the first entry with this hash, 0 when there is none
FindEntry(l, hash) ==
    LET S == { i \in 1..Len(l) : eq_ignore_ascii_case(l[i].info_hash, hash) }
    IN  IF S = {} THEN 0 ELSE CHOOSE i \in S : \A j \in S : i <= j

\* position of the first torrent with this hash, 0 when there is none
FindTorrent(ts, hash) ==
    LET S == { i \in 1..Len(ts) :
                 /\ ts[i].hash_string # None
                 /\ eq_ignore_ascii_case(ts[i].hash_string, hash) }
    IN  IF S = {} THEN 0 ELSE CHOOSE i \in S : \A j \in S : i <= j

\* mutant: the URL is never rejected
make_trans_clientAnyUrl(cfg) == TRUE

make_trans_client(cfg) == cfg.host # ""

load_config == cfgFile

load_ledger == file

\* the ledger file after save_ledger(path, l) with the given result
save_ledger(l, ok) == IF ok THEN l ELSE file

-----------------------------------------------------------------------------
(* Reconciliation *)

\* mutant: ledger_changed is set whatever the pass did
ChangedAlways(l, c) == [ledger |-> l, changed |-> TRUE]

Changed(l, c) == [ledger |-> l, changed |-> c]

\* mutant: an entry in any state other than Copied is fixed
ReconcileTrackedAnyState(l, i, fs, cfg, name) ==
    IF /\ l[i].copy_state # "Copied"
       /\ check_already_copied(fs, cfg, l[i].destination, name)
    THEN Changed([l EXCEPT ![i].copy_state = "Copied"], TRUE)
    ELSE Changed(l, FALSE)

\* mutant: only a NotCopied entry is fixed, a Failed one is left
ReconcileTrackedNotCopiedOnly(l, i, fs, cfg, name) ==
    IF /\ l[i].copy_state = "NotCopied"
       /\ check_already_copied(fs, cfg, l[i].destination, name)
    THEN Changed([l EXCEPT ![i].copy_state = "Copied"], TRUE)
    ELSE Changed(l, FALSE)

ReconcileTracked(l, i, fs, cfg, name) ==
    IF /\ l[i].copy_state \in {"NotCopied", "Failed"}
       /\ check_already_copied(fs, cfg, l[i].destination, name)
    THEN Changed([l EXCEPT ![i].copy_state = "Copied"], TRUE)
    ELSE Changed(l, FALSE)

\* mutant: an adopted torrent is appended as NotCopied
ReconcileUntrackedAsNotCopied(l, fs, cfg, hash, name) ==
    LET d == detect_destination(fs, cfg, name)
    IN  IF d # <<>>
        THEN Changed(Append(l, DownloadEntry(hash, name, d[1], "NotCopied")), TRUE)
        ELSE Changed(l, FALSE)

\* mutant: an untracked torrent is adopted without looking for its files
ReconcileUntrackedAlways(l, fs, cfg, hash, name) ==
    Changed(Append(l, DownloadEntry(hash, name, "Movies", "NotCopied")), TRUE)

ReconcileUntracked(l, fs, cfg, hash, name) ==
    LET d == detect_destination(fs, cfg, name)
    IN  IF d # <<>>
        THEN Changed(Append(l, DownloadEntry(hash, name, d[1], d[2])), TRUE)
        ELSE Changed(l, FALSE)

ReconcileOne(l, fs, cfg, tt) ==
    IF tt.hash_string = None \/ tt.name = None THEN Changed(l, FALSE)
    ELSE LET i == FindEntry(l, tt.hash_string)
         IN  IF i # 0 THEN ReconcileTracked(l, i, fs, cfg, tt.name)
             ELSE ReconcileUntracked(l, fs, cfg, tt.hash_string, tt.name)

RECURSIVE ReconcileLoop(_, _, _, _, _)
ReconcileLoop(l, changed, ts, fs, cfg) ==
    IF ts = <<>> THEN Changed(l, changed)
    ELSE LET r == ReconcileOne(l, fs, cfg, Head(ts))
         IN  ReconcileLoop(r.ledger, changed \/ r.changed, Tail(ts), fs, cfg)

\* mutant: a Failed entry is not selected again
RECURSIVE PendingFromNotCopiedOnly(_, _)
PendingFromNotCopiedOnly(l, i) ==
    IF i > Len(l) THEN <<>>
    ELSE IF l[i].copy_state = "NotCopied"
         THEN <<i>> \o PendingFromNotCopiedOnly(l, i + 1)
         ELSE PendingFromNotCopiedOnly(l, i + 1)

\* the indices of the entries eligible for copying, in ledger order
RECURSIVE PendingFrom(_, _)
PendingFrom(l, i) ==
    IF i > Len(l) THEN <<>>
    ELSE IF l[i].copy_state \in {"NotCopied", "Failed"}
         THEN <<i>> \o PendingFrom(l, i + 1)
         ELSE PendingFrom(l, i + 1)

Pending(l) == PendingFrom(l, 1)

-----------------------------------------------------------------------------
(* The copy phase: what the for loop decides for one pending entry *)

Plan(k, dst) == [kind |-> k, dst |-> dst]

SkipKinds == {"noTorrent", "incomplete", "noDownloadDir", "noDestDir", "noSource"}

\* torrent_name of the entry at idx: the daemon's name, else the entry's
TorrentName(l, idx, ts) ==
    LET t == FindTorrent(ts, l[idx].info_hash)
    IN  IF t # 0 /\ ts[t].name # None THEN ts[t].name ELSE l[idx].name

\* dst_path of the entry at idx: <<dest_dir, torrent_name>>
DstPath(l, idx, ts, cfg) ==
    <<dir_for(cfg, l[idx].destination), TorrentName(l, idx, ts)>>

\* mutant: an empty destination directory passes for a configured one
CopyDecisionEmptyDirAllowed(l, idx, ts, cfg, fs, src) ==
    LET t == FindTorrent(ts, l[idx].info_hash)
        dst == DstPath(l, idx, ts, cfg)
    IN  IF t = 0 THEN Plan("noTorrent", dst)
        ELSE IF unwrap_or(ts[t].percent_done, 0) < 100 THEN Plan("incomplete", dst)
        ELSE IF ts[t].download_dir = None THEN Plan("noDownloadDir", dst)
        ELSE IF dst[1] = None THEN Plan("noDestDir", dst)
        ELSE IF PathExists(fs, dst[1], dst[2]) THEN Plan("already", dst)
        ELSE IF <<ts[t].download_dir, dst[2]>> \notin src THEN Plan("noSource", dst)
        ELSE Plan("copy", dst)

\* mutant: the check of the completion fraction is missing
CopyDecisionNoPercentCheck(l, idx, ts, cfg, fs, src) ==
    LET t == FindTorrent(ts, l[idx].info_hash)
        dst == DstPath(l, idx, ts, cfg)
    IN  IF t = 0 THEN Plan("noTorrent", dst)
        ELSE IF ts[t].download_dir = None THEN Plan("noDownloadDir", dst)
        ELSE IF dst[1] = None \/ dst[1] = "" THEN Plan("noDestDir", dst)
        ELSE IF PathExists(fs, dst[1], dst[2]) THEN Plan("already", dst)
        ELSE IF <<ts[t].download_dir, dst[2]>> \notin src THEN Plan("noSource", dst)
        ELSE Plan("copy", dst)

\* mutant: the check that the destination path exists is missing
CopyDecisionNoShortcut(l, idx, ts, cfg, fs, src) ==
    LET t == FindTorrent(ts, l[idx].info_hash)
        dst == DstPath(l, idx, ts, cfg)
    IN  IF t = 0 THEN Plan("noTorrent", dst)
        ELSE IF unwrap_or(ts[t].percent_done, 0) < 100 THEN Plan("incomplete", dst)
        ELSE IF ts[t].download_dir = None THEN Plan("noDownloadDir", dst)
        ELSE IF dst[1] = None \/ dst[1] = "" THEN Plan("noDestDir", dst)
        ELSE IF <<ts[t].download_dir, dst[2]>> \notin src THEN Plan("noSource", dst)
        ELSE Plan("copy", dst)

\* mutant: the check that the source path exists is missing
CopyDecisionNoSourceCheck(l, idx, ts, cfg, fs, src) ==
    LET t == FindTorrent(ts, l[idx].info_hash)
        dst == DstPath(l, idx, ts, cfg)
    IN  IF t = 0 THEN Plan("noTorrent", dst)
        ELSE IF unwrap_or(ts[t].percent_done, 0) < 100 THEN Plan("incomplete", dst)
        ELSE IF ts[t].download_dir = None THEN Plan("noDownloadDir", dst)
        ELSE IF dst[1] = None \/ dst[1] = "" THEN Plan("noDestDir", dst)
        ELSE IF PathExists(fs, dst[1], dst[2]) THEN Plan("already", dst)
        ELSE Plan("copy", dst)

CopyDecision(l, idx, ts, cfg, fs, src) ==
    LET t == FindTorrent(ts, l[idx].info_hash)
        dst == DstPath(l, idx, ts, cfg)
    IN  IF t = 0 THEN Plan("noTorrent", dst)
        ELSE IF unwrap_or(ts[t].percent_done, 0) < 100 THEN Plan("incomplete", dst)
        ELSE IF ts[t].download_dir = None THEN Plan("noDownloadDir", dst)
        ELSE IF dst[1] = None \/ dst[1] = "" THEN Plan("noDestDir", dst)
        ELSE IF PathExists(fs, dst[1], dst[2]) THEN Plan("already", dst)
        ELSE IF <<ts[t].download_dir, dst[2]>> \notin src THEN Plan("noSource", dst)
        ELSE Plan("copy", dst)

\* ledger[idx].copy_state = CopyState::Copied (already at destination)
MarkCopied(l, idx) == [l EXCEPT ![idx].copy_state = "Copied"]

\* mutant: the entry is not marked before the save
StartCopyUnmarked(l, idx) == l

\* ledger[idx].copy_state = CopyState::Copying
StartCopy(l, idx) == [l EXCEPT ![idx].copy_state = "Copying"]

\* mutant: a failed copy puts the entry back to NotCopied
CopyResultStateReset(ok) == IF ok THEN "Copied" ELSE "NotCopied"

\* the state the match on the result of the copy gives the entry
CopyResultState(ok) == IF ok THEN "Copied" ELSE "Failed"

\* mutant: a failed copy ends the for loop
AfterCopyAbort(rest, ok) == IF ok THEN rest ELSE <<>>

\* what is left of `pending` after a copy: both arms of the match fall
\* through to the next iteration
AfterCopy(rest, ok) == rest

\* mutant: a failed save ends the cycle
AfterSaveFatal(next, ok) == IF ok THEN next ELSE "done"

\* where the task goes after a save_ledger call with result ok: an Err is
\* logged (`if let Err(e)`) or dropped (`let _ =`)
AfterSave(next, ok) == next

\* where the task goes when the body of the for loop ends for one entry
NextPc(rest) == IF rest = <<>> THEN "done" ELSE "pending"

\* mutant: a failed copy leaves what it wrote
CleanupSkipped(fs, dst, rmOk) == fs

\* the destination after the cleanup of a failed copy
Cleanup(fs, dst, rmOk) ==
    IF fs[dst] # "none" /\ rmOk THEN [fs EXCEPT ![dst] = "none"] ELSE fs

\* the destination after one step of copy_recursive_async on a directory:
\* step 0 creates the directory, step k copies its k-th file
CopyProgress(fs, dst, k) ==
    [fs EXCEPT ![dst] = IF k = SrcFiles THEN "full" ELSE "partial"]

-----------------------------------------------------------------------------
(* State after construction *)

Init ==
    /\ file = <<>>
    /\ mem = file
    /\ cfgFile \in Configs
    /\ dstFs \in InitDst
    /\ permit = FALSE
    /\ pc = "wait"
    /\ config = DefaultConfig
    /\ ledger = <<>>
    /\ torrents = <<>>
    /\ pending = <<>>
    /\ cur = 0
    /\ prog = 0
    /\ copyOk = TRUE
    /\ crashed = FALSE
    /\ ev = Ev("init", "-", TRUE)
    /\ log = <<>>
    /\ snap = Snap(<<>>, NoDst, <<>>)
    /\ saved = <<>>
    /\ nsaves = 0
    /\ saveFailed = FALSE
    /\ adds = 0
    /\ faults = 0
    /\ memCfg = cfgFile
    /\ tree = Absent
    /\ setCall = <<>>
    /\ category = 0

-----------------------------------------------------------------------------
(* add_download *)

\* mutant: the notification is dropped when the task is not waiting
notify_oneNoPermit(p, waiting) == p \/ waiting

\* Notify::notify_one with the only waiter, the task, waiting or not: the
\* permit is stored until a notified() future takes it
notify_one(p, waiting) == TRUE

\* mutant: the copy_state of an entry already tracked is kept
AddEntryKeepsState(l, h, n, d) ==
    LET i == FindEntry(l, h)
    IN  IF i # 0
        THEN [l EXCEPT ![i].destination = d]
        ELSE Append(l, DownloadEntry(h, n, d, "NotCopied"))

\* mutant: the entry is pushed without looking for the hash
AddEntryAlwaysPush(l, h, n, d) == Append(l, DownloadEntry(h, n, d, "NotCopied"))

AddEntry(l, h, n, d) ==
    LET i == FindEntry(l, h)
    IN  IF i # 0
        THEN [l EXCEPT ![i].destination = d, ![i].copy_state = "NotCopied"]
        ELSE Append(l, DownloadEntry(h, n, d, "NotCopied"))

add_download(S) ==
    \E in \in AddInputs, ok \in S :
      LET h == in[1]
          d == in[2]
      IN
        /\ adds < MaxAdds
        /\ adds' = adds + 1
        /\ ok \/ faults < MaxFaults
        /\ faults' = Fault(faults, ok)
        /\ mem' = AddEntry(mem, h, NameOf(h), d)
        /\ file' = save_ledger(mem', ok)
        /\ permit' = IF ok THEN notify_one(permit, pc = "wait") ELSE permit
        /\ ev' = AddEv(h, d, ok)
        /\ UNCHANGED <<memCfg, tree, setCall, category>>
        /\ UNCHANGED <<cfgFile, dstFs, pc, config, ledger, torrents,
                       pending, cur, prog, copyOk, crashed, log, snap,
                       saveFailed, saved, nsaves>>

-----------------------------------------------------------------------------
(* copy_task_from_disk *)

\* select! on the timer and the notification, then the reload from disk
Wake ==
    /\ pc = "wait"
    /\ \E notified \in BOOLEAN :
        /\ notified => permit
        /\ permit' = IF notified THEN FALSE ELSE permit
    /\ config' = load_config
    /\ ledger' = load_ledger
    /\ snap' = Snap(file, dstFs, <<>>)
    /\ saved' = <<>>
    /\ nsaves' = 0
    /\ torrents' = <<>>
    /\ pending' = <<>>
    /\ log' = <<>>
    /\ IF make_trans_client(config')
       THEN pc' = "fetch" /\ ev' = Ev("wake", "-", TRUE)
       ELSE pc' = "done" /\ ev' = Ev("invalidUrl", "-", TRUE)
    /\ UNCHANGED <<memCfg, tree, setCall, category>>
    /\ UNCHANGED <<file, mem, cfgFile, dstFs, cur, prog, copyOk, crashed,
                   saveFailed, adds, faults>>

\* client.torrent_get(...).await and the check of response.is_ok()
Fetch(R) ==
    /\ pc = "fetch"
    /\ \E r \in R :
        IF r.status = "ok"
        THEN /\ torrents' = r.torrents
             /\ pc' = "reconcile"
             /\ ev' = Ev("fetched", "-", TRUE)
        ELSE /\ torrents' = <<>>
             /\ pc' = "done"
             /\ ev' = Ev(r.status, "-", TRUE)
    /\ UNCHANGED <<memCfg, tree, setCall, category>>
    /\ UNCHANGED <<file, mem, cfgFile, dstFs, permit, config, ledger, pending,
                   cur, prog, copyOk, crashed, log, snap, saveFailed, adds,
                   faults, saved, nsaves>>

\* the reconciliation pass, its save, and the selection of `pending`
Reconcile(S) ==
    /\ pc = "reconcile"
    /\ \E r \in {ReconcileLoop(ledger, FALSE, torrents, dstFs, config)} :
           /\ ledger' = r.ledger
           /\ \E ok \in S :
                /\ ~r.changed => ok
                /\ ok \/ faults < MaxFaults
                /\ faults' = Fault(faults, ok)
                /\ file' = IF r.changed THEN save_ledger(r.ledger, ok) ELSE file
                /\ saved' = IF r.changed THEN r.ledger ELSE saved
                /\ nsaves' = IF r.changed THEN nsaves + 1 ELSE nsaves
                /\ saveFailed' = (saveFailed \/ ~ok)
                /\ ev' = Ev(IF r.changed THEN "reconciled" ELSE "reconcileNoop",
                            "-", ok)
                /\ pc' = AfterSave(NextPc(Pending(r.ledger)), ok)
           /\ pending' = Pending(r.ledger)
           /\ snap' = [snap EXCEPT !.pending = Pending(r.ledger)]
    /\ UNCHANGED <<memCfg, tree, setCall, category>>
    /\ UNCHANGED <<mem, cfgFile, dstFs, permit, config, torrents, cur,
                   prog, copyOk, crashed, log, adds>>

\* one iteration of `for idx in pending`, up to the start of the copy
PendingStep(S) ==
    /\ pc = "pending"
    /\ LET idx == Head(pending)
           plan == CopyDecision(ledger, idx, torrents, config, dstFs, SrcEntries)
           h == ledger[idx].info_hash
       IN  \E ok \in S :
            /\ pending' = Tail(pending)
            /\ ok \/ faults < MaxFaults
            /\ faults' = Fault(faults, ok)
            /\ ev' = Ev(plan.kind, h, ok)
            /\ IF plan.kind \in SkipKinds
               THEN /\ ok
                    /\ log' = Append(log, [idx |-> idx, out |-> "skip"])
                    /\ pc' = NextPc(Tail(pending))
                    /\ UNCHANGED <<ledger, file, cur, prog, saveFailed, saved,
                                   nsaves>>
               ELSE IF plan.kind = "already"
               THEN /\ ledger' = MarkCopied(ledger, idx)
                    /\ file' = save_ledger(ledger', ok)
                    /\ saved' = ledger'
                    /\ nsaves' = nsaves + 1
                    /\ saveFailed' = (saveFailed \/ ~ok)
                    /\ log' = Append(log, [idx |-> idx, out |-> "already"])
                    /\ pc' = AfterSave(NextPc(Tail(pending)), ok)
                    /\ UNCHANGED <<cur, prog>>
               ELSE /\ ledger' = StartCopy(ledger, idx)
                    /\ file' = save_ledger(ledger', ok)
                    /\ saved' = ledger'
                    /\ nsaves' = nsaves + 1
                    /\ saveFailed' = (saveFailed \/ ~ok)
                    /\ cur' = idx
                    /\ prog' = 0
                    /\ pc' = AfterSave("copy", ok)
                    /\ UNCHANGED log
    /\ UNCHANGED <<memCfg, tree, setCall, category>>
    /\ UNCHANGED <<mem, cfgFile, dstFs, permit, config, torrents,
                   copyOk, crashed, snap, adds>>

\* one await of copy_recursive_async(&src_path, &dst_path)
CopyStep(S) ==
    /\ pc = "copy"
    /\ LET dst == DstPath(ledger, cur, torrents, config)
       IN  \E ok \in S :
            /\ ev' = Ev("copyStep", ledger[cur].info_hash, ok)
            /\ IF ok
               THEN /\ dstFs' = CopyProgress(dstFs, dst, prog)
                    /\ prog' = prog + 1
                    /\ copyOk' = TRUE
                    /\ pc' = IF prog = SrcFiles THEN "result" ELSE "copy"
               ELSE /\ copyOk' = FALSE
                    /\ pc' = "result"
                    /\ UNCHANGED <<dstFs, prog>>
    /\ UNCHANGED <<memCfg, tree, setCall, category>>
    /\ UNCHANGED <<file, mem, cfgFile, permit, config, ledger, torrents,
                   pending, cur, crashed, log, snap, saveFailed, adds, faults,
                   saved, nsaves>>

\* the match on the result of the copy, the cleanup and the final save
CopyResult(S, R) ==
    /\ pc = "result"
    /\ LET dst == DstPath(ledger, cur, torrents, config)
           st == CopyResultState(copyOk)
       IN  \E ok \in S, rmOk \in R :
            /\ (copyOk \/ dstFs[dst] = "none") => rmOk
            /\ Fault(Fault(faults, ok), rmOk) <= MaxFaults
            /\ faults' = Fault(Fault(faults, ok), rmOk)
            /\ ledger' = [ledger EXCEPT ![cur].copy_state = st]
            /\ dstFs' = IF copyOk THEN dstFs ELSE Cleanup(dstFs, dst, rmOk)
            /\ file' = save_ledger(ledger', ok)
            /\ saved' = ledger'
            /\ nsaves' = nsaves + 1
            /\ saveFailed' = (saveFailed \/ ~ok)
            /\ ev' = [Ev(IF copyOk THEN "copyOk" ELSE "copyErr",
                         ledger[cur].info_hash, ok) EXCEPT !.rm = rmOk]
            /\ log' = Append(log, [idx |-> cur, out |-> st])
            /\ pc' = AfterSave(NextPc(AfterCopy(pending, copyOk)), ok)
    /\ pending' = AfterCopy(pending, copyOk)
    /\ UNCHANGED <<memCfg, tree, setCall, category>>
    /\ UNCHANGED <<mem, cfgFile, permit, config, torrents, cur, prog,
                   copyOk, crashed, snap, adds>>

\* the end of the loop body (or a `continue`): the locals of the cycle are
\* dropped and the task is back at its select!
Loop ==
    /\ pc = "done"
    /\ pc' = "wait"
    /\ config' = DefaultConfig
    /\ ledger' = <<>>
    /\ torrents' = <<>>
    /\ pending' = <<>>
    /\ log' = <<>>
    /\ snap' = Snap(<<>>, NoDst, <<>>)
    /\ saved' = <<>>
    /\ nsaves' = 0
    /\ cur' = 0
    /\ prog' = 0
    /\ copyOk' = TRUE
    /\ ev' = Ev("loop", "-", TRUE)
    /\ UNCHANGED <<memCfg, tree, setCall, category>>
    /\ UNCHANGED <<file, mem, cfgFile, dstFs, permit, crashed, saveFailed,
                   adds, faults>>

\* the process ends at any point and is started again: App::new reloads
\* the ledger from the file and the task starts over at its wait (a crash
\* counts among the faults of the run)
Crash ==
    /\ faults < MaxFaults
    /\ faults' = faults + 1
    /\ crashed' = TRUE
    /\ mem' = load_ledger
    /\ permit' = FALSE
    /\ pc' = "wait"
    /\ config' = DefaultConfig
    /\ ledger' = <<>>
    /\ torrents' = <<>>
    /\ pending' = <<>>
    /\ cur' = 0
    /\ prog' = 0
    /\ copyOk' = TRUE
    /\ log' = <<>>
    /\ snap' = Snap(<<>>, NoDst, <<>>)
    /\ saved' = <<>>
    /\ nsaves' = 0
    /\ ev' = Ev("crash", "-", TRUE)
    /\ memCfg' = load_config
    /\ setCall' = <<>>
    /\ UNCHANGED <<file, cfgFile, dstFs, saveFailed, adds, tree, category>>

Next ==
    \/ add_download(BOOLEAN)
    \/ Wake
    \/ Fetch(AllFetches)
    \/ Reconcile(BOOLEAN)
    \/ PendingStep(BOOLEAN)
    \/ CopyStep(BOOLEAN)
    \/ CopyResult(BOOLEAN, BOOLEAN)
    \/ Loop
    \/ Crash

Spec == Init /\ [][Next]_vars

-----------------------------------------------------------------------------
(* The loop under fair scheduling, with a reachable daemon and no copy error *)

\* the daemon answers, and reports torrent "a" complete with a download
\* directory under which its source path exists
GoodFetches ==
    { FetchOutcome("ok", <<Torrent("a", "x", <<100>>, "dl")>>),
      FetchOutcome("ok", <<Torrent("a", "x", <<100>>, "dl"),
                           Torrent("b", "y", <<100>>, "dl")>>) }

\* both destination directories are configured
LiveInit == Init /\ cfgFile = Config("localhost", "m", "s")

\* the steps of the commands and of the task with no I/O error at all:
\* every copy step and every write of the ledger file succeeds
LiveNext ==
    \/ add_download({TRUE})
    \/ Wake
    \/ Fetch(GoodFetches)
    \/ Reconcile({TRUE})
    \/ PendingStep({TRUE})
    \/ CopyStep({TRUE})
    \/ CopyResult({TRUE}, {TRUE})
    \/ Loop

\* the task is a spawned future that the runtime keeps polling: the timer
\* of its select! fires every 30 s and each await completes
LiveSpec ==
    /\ LiveInit
    /\ [][LiveNext]_vars
    /\ WF_vars(Wake)
    /\ WF_vars(Fetch(GoodFetches))
    /\ WF_vars(Reconcile({TRUE}))
    /\ WF_vars(PendingStep({TRUE}))
    /\ WF_vars(CopyStep({TRUE}))
    /\ WF_vars(CopyResult({TRUE}, {TRUE}))
    /\ WF_vars(Loop)

-----------------------------------------------------------------------------
(* Vocabulary of the properties *)

LoopKinds ==
    SkipKinds \cup {"already", "copy", "copyStep", "copyOk", "copyErr"}

CopyPhaseKinds == SkipKinds \cup {"already", "copyOk", "copyErr"}

\* the cycle has just ended: the last step was the task's
CycleEnd == pc = "done" /\ ev.kind # "add"

\* the for loop of the copy phase has just ended
CopyPhaseEnd == pc = "done" /\ ev.kind \in CopyPhaseKinds

\* the step is an iteration of the for loop on Head(pending)
IsPendingStep ==
    pc = "pending" /\ ev'.kind \in SkipKinds \cup {"already", "copy"}

\* the entry at idx has a complete torrent with a download directory and
\* its destination directory is configured
Eligible(l, idx, ts, cfg) ==
    LET t == FindTorrent(ts, l[idx].info_hash)
    IN  /\ t # 0
        /\ unwrap_or(ts[t].percent_done, 0) >= 100
        /\ ts[t].download_dir # None
        /\ dir_for(cfg, l[idx].destination) \notin {None, ""}

SourceExists(l, idx, ts) ==
    LET t == FindTorrent(ts, l[idx].info_hash)
    IN  <<ts[t].download_dir, TorrentName(l, idx, ts)>> \in SrcEntries

DstExists(fs, l, idx, ts, cfg) ==
    fs[DstPath(l, idx, ts, cfg)] # "none"

-----------------------------------------------------------------------------
(* C1 *)

\* C1: once the ledger file records an entry as Copied, no later content of
\* the file records that entry (same info_hash, ignoring case) in another
\* state.  Stated step by step; a call of add_download for that very entry,
\* which resets it on purpose, is left out.
C1_CopiedNeverRegresses ==
    [][\A i \in 1..Len(file), j \in 1..Len(file') :
          ( /\ file[i].copy_state = "Copied"
            /\ eq_ignore_ascii_case(file[i].info_hash, file'[j].info_hash)
            /\ ~( /\ ev'.kind = "add"
                  /\ eq_ignore_ascii_case(ev'.hash, file[i].info_hash) ) )
          => file'[j].copy_state = "Copied"]_vars

-----------------------------------------------------------------------------
(* C2 *)

FourEdges ==
    { <<"NotCopied", "Copying">>, <<"Copying", "Copied">>,
      <<"Copying", "Failed">>, <<"Failed", "Copying">> }

SixEdges ==
    FourEdges \cup { <<"NotCopied", "Copied">>, <<"Failed", "Copied">> }

\* every change a step of the task makes to a copy_state is an edge of E
TaskEdgesIn(E) ==
    pc \in {"reconcile", "pending", "copy", "result"}
        => \A i \in 1..Len(ledger) :
              ( /\ i <= Len(ledger')
                /\ ledger'[i].copy_state # ledger[i].copy_state )
              => <<ledger[i].copy_state, ledger'[i].copy_state>> \in E

\* C2 as claimed: every change the task makes to a copy_state is one of
\* NotCopied->Copying, Copying->Copied, Copying->Failed, Failed->Copying.
C2_FourEdgesOnly == [][TaskEdgesIn(FourEdges)]_vars

\* C2 amended: every change the task makes to a copy_state is one of the
\* four edges or one of the shortcuts NotCopied->Copied, Failed->Copied.
C2_SixEdges == [][TaskEdgesIn(SixEdges)]_vars

\* the reconciliation pass has just moved an entry from NotCopied to Copied
C2_Witness ==
    /\ ev.kind = "reconciled"
    /\ \E i \in 1..Len(snap.ledger) :
          /\ snap.ledger[i].copy_state = "NotCopied"
          /\ ledger[i].copy_state = "Copied"

-----------------------------------------------------------------------------
(* C3 *)

\* the ledger file tracks torrent "a" in one of the states sts
FileHas(sts) ==
    \E i \in 1..Len(file) :
        /\ eq_ignore_ascii_case(file[i].info_hash, "a")
        /\ file[i].copy_state \in sts

\* the ledger file records torrent "a" as Copied and its path exists under
\* the directory of the entry's destination
CopiedAtDestination ==
    \E i \in 1..Len(file) :
        /\ eq_ignore_ascii_case(file[i].info_hash, "a")
        /\ file[i].copy_state = "Copied"
        /\ PathExists(dstFs, dir_for(cfgFile, file[i].destination), "x")

\* C3: under fair scheduling of the loop, with the daemon reachable and
\* reporting the torrent complete with a download directory, its source
\* present, both destination directories configured and no copy I/O error,
\* an entry the ledger file tracks as NotCopied or Failed is eventually
\* recorded as Copied in the ledger file with its destination path present.
C3_EventuallyCopied ==
    FileHas({"NotCopied", "Failed"}) ~> CopiedAtDestination

-----------------------------------------------------------------------------
(* C4 *)

\* the daemon reported exactly one torrent, complete, with its source
OneCompleteTorrent ==
    /\ Len(torrents) = 1
    /\ torrents[1].hash_string # None
    /\ torrents[1].name # None
    /\ unwrap_or(torrents[1].percent_done, 0) = 100
    /\ torrents[1].download_dir # None
    /\ <<torrents[1].download_dir, torrents[1].name>> \in SrcEntries

\* a destination is configured and none held the item when the cycle began
ConfiguredAndEmpty ==
    /\ \E d \in Destinations : dir_for(config, d) \notin {None, ""}
    /\ \A d \in Destinations :
          dir_for(config, d) \notin {None, ""}
              => snap.dst[<<dir_for(config, d), torrents[1].name>>] = "none"

\* C4 as claimed: from an empty ledger, one complete torrent and a
\* configured destination without the item, one cycle leaves exactly one
\* entry, Copied, and the copied files at the destination.
C4_AdoptedAndCopied ==
    (CycleEnd /\ snap.ledger = <<>> /\ OneCompleteTorrent /\ ConfiguredAndEmpty)
        => /\ Len(file) = 1
           /\ eq_ignore_ascii_case(file[1].info_hash, torrents[1].hash_string)
           /\ file[1].copy_state = "Copied"
           /\ \E d \in Destinations :
                 /\ dir_for(config, d) \notin {None, ""}
                 /\ dstFs[<<dir_for(config, d), torrents[1].name>>] = "full"

\* the ledger file held one NotCopied entry for the torrent, with a
\* configured destination that did not hold the item
TrackedAndEmpty ==
    /\ Len(snap.ledger) = 1
    /\ snap.ledger[1].copy_state = "NotCopied"
    /\ eq_ignore_ascii_case(snap.ledger[1].info_hash, torrents[1].hash_string)
    /\ dir_for(config, snap.ledger[1].destination) \notin {None, ""}
    /\ snap.dst[<<dir_for(config, snap.ledger[1].destination),
                  torrents[1].name>>] = "none"

NoCopyError == \A k \in 1..Len(log) : log[k].out # "Failed"

\* C4 amended: in that scenario the cycle leaves the ledger empty, saves
\* nothing and copies nothing; when the ledger file instead holds one
\* NotCopied entry for the torrent with the configured destination, a cycle
\* without copy error whose last save succeeds leaves exactly that entry,
\* Copied, in the ledger and in the file, and the complete copy at the
\* destination.
C4_TrackedIsCopied ==
    /\ (CycleEnd /\ snap.ledger = <<>> /\ OneCompleteTorrent /\ ConfiguredAndEmpty)
          => (ledger = <<>> /\ nsaves = 0 /\ dstFs = snap.dst)
    /\ (CycleEnd /\ OneCompleteTorrent /\ TrackedAndEmpty /\ NoCopyError /\ ev.ok)
          => /\ Len(ledger) = 1
             /\ ledger[1].copy_state = "Copied"
             /\ file = ledger
             /\ dstFs[<<dir_for(config, ledger[1].destination),
                        torrents[1].name>>] = "full"

\* a cycle that found the one tracked entry has just copied it
C4_Witness ==
    /\ CycleEnd /\ OneCompleteTorrent /\ TrackedAndEmpty /\ NoCopyError /\ ev.ok
    /\ ev.kind = "copyOk"
    /\ file = <<DownloadEntry("A", "x", "Movies", "Copied")>>
    /\ dstFs[<<"m", "x">>] = "full"

-----------------------------------------------------------------------------
(* C5 *)

-----------------------------------------------------------------------------
(* C6 *)

\* what the for loop is to do with the entry at idx, by the data the cycle
\* started with
StaticPlan(idx) ==
    /\ Eligible(ledger, idx, torrents, config)
    /\ SourceExists(ledger, idx, torrents)
    /\ ~DstExists(snap.dst, ledger, idx, torrents, config)

\* C6: at the end of the copy phase, every pending entry that comes after
\* an entry whose copy failed has been handled in this cycle, and its copy
\* has been attempted when it was eligible.
C6_FailureIsLocal ==
    CopyPhaseEnd
        => \A k \in 1..Len(log), p \in 1..Len(snap.pending) :
              (log[k].out = "Failed" /\ snap.pending[p] > log[k].idx)
              => \E k2 \in 1..Len(log) :
                    /\ k2 > k
                    /\ log[k2].idx = snap.pending[p]
                    /\ StaticPlan(snap.pending[p])
                          => log[k2].out \in {"Copied", "Failed"}

\* a copy failed and the copy of a later entry was done in the same cycle
C6_Witness ==
    /\ CopyPhaseEnd
    /\ \E k \in 1..Len(log), k2 \in 1..Len(log) :
          /\ k < k2
          /\ log[k].out = "Failed"
          /\ log[k2].out = "Copied"
          /\ StaticPlan(log[k2].idx)

-----------------------------------------------------------------------------
(* C7 *)

\* C7: whenever the running copy has created something under the
\* destination path, the task has already called save_ledger with the entry
\* as Copying.
C7_CopyingSavedFirst ==
    (pc \in {"copy", "result"} /\ prog >= 1)
        => /\ nsaves >= 1
           /\ Len(saved) >= cur
           /\ saved[cur].info_hash = ledger[cur].info_hash
           /\ saved[cur].copy_state = "Copying"

\* the copy has created the destination directory
C7_Witness ==
    /\ pc = "copy" /\ prog = 1
    /\ dstFs[DstPath(ledger, cur, torrents, config)] = "partial"
    /\ saved[cur].copy_state = "Copying"

-----------------------------------------------------------------------------
(* C8 *)

\* an entry of the task's ledger is Copying only while its copy runs
OnlyRunningIsCopying ==
    \A i \in 1..Len(ledger) :
        ledger[i].copy_state = "Copying"
            => (pc \in {"copy", "result"} /\ i = cur)

\* C8 as claimed: without a process crash, the task's ledger has at most
\* one entry Copying, and it is the entry whose copy is running.
C8_OneCopying == ~crashed => OnlyRunningIsCopying

-----------------------------------------------------------------------------
(* C9 *)

\* the entry at idx is eligible and its destination path exists
AlreadyThere(idx) ==
    /\ Eligible(ledger, idx, torrents, config)
    /\ DstExists(dstFs, ledger, idx, torrents, config)

-----------------------------------------------------------------------------
(* C10 *)

\* the entry at idx is eligible, not at its destination, and has no source
SourceMissing(idx) ==
    /\ Eligible(ledger, idx, torrents, config)
    /\ ~DstExists(dstFs, ledger, idx, torrents, config)
    /\ ~SourceExists(ledger, idx, torrents)

\* C10: when the for loop reaches an otherwise eligible entry whose source
\* path does not exist, it leaves the ledger as it is, calls no save, starts
\* no copy and creates nothing at the destination.
C10_SourceMissingSkipped ==
    [][(IsPendingStep /\ SourceMissing(Head(pending)))
          => /\ ledger' = ledger
             /\ file' = file
             /\ saved' = saved
             /\ nsaves' = nsaves
             /\ dstFs' = dstFs
             /\ pc' # "copy"]_vars

\* the for loop has just skipped an entry whose source is missing
C10_Witness ==
    /\ ev.kind = "noSource"
    /\ log[Len(log)].out = "skip"
    /\ ledger[log[Len(log)].idx].copy_state \in {"NotCopied", "Failed"}
    /\ ~DstExists(dstFs, ledger, log[Len(log)].idx, torrents, config)

-----------------------------------------------------------------------------
(* C11 *)

\* the directory of the destination of the entry at idx is absent or empty
NoDestDir(idx) == dir_for(config, ledger[idx].destination) \in {None, ""}

\* C11: when the for loop reaches an entry whose destination directory is
\* not configured (absent or empty), it leaves the ledger as it is, calls
\* no save, starts no copy and writes nothing under the destinations.
C11_NoDestDirSkipped ==
    [][(IsPendingStep /\ NoDestDir(Head(pending)))
          => /\ ledger' = ledger
             /\ file' = file
             /\ saved' = saved
             /\ nsaves' = nsaves
             /\ dstFs' = dstFs
             /\ pc' # "copy"]_vars

\* the for loop has just skipped a complete torrent whose destination
\* directory is not configured
C11_Witness ==
    /\ ev.kind = "noDestDir"
    /\ log[Len(log)].out = "skip"
    /\ NoDestDir(log[Len(log)].idx)
    /\ ledger[log[Len(log)].idx].copy_state \in {"NotCopied", "Failed"}
    /\ file = snap.ledger

-----------------------------------------------------------------------------
(* C12 *)

\* the daemon returned a torrent for the entry at idx, complete, with a
\* download directory
LiveComplete(idx) ==
    LET t == FindTorrent(torrents, ledger[idx].info_hash)
    IN  /\ t # 0
        /\ unwrap_or(torrents[t].percent_done, 0) = 100
        /\ torrents[t].download_dir # None

\* the kinds of step by which the for loop goes on with a copy candidate
CandidateKinds == {"noDestDir", "already", "noSource", "copy"}

\* C12: the entries the reconciliation pass hands to the copy phase are
\* those that are NotCopied or Failed; the for loop goes on with such an
\* entry iff the daemon returned a torrent of the same hash, complete, with
\* a download directory; an entry without such a torrent, or with an
\* incomplete one, is left as it is and the loop goes on.
C12_CandidateIff ==
    /\ [][(pc = "reconcile" /\ pc' \in {"pending", "done"})
            => \A i \in 1..Len(ledger') :
                  (\E p \in 1..Len(pending') : pending'[p] = i)
                      <=> ledger'[i].copy_state \in {"NotCopied", "Failed"}]_vars
    /\ [][IsPendingStep
            => /\ ledger[Head(pending)].copy_state \in {"NotCopied", "Failed"}
               /\ (ev'.kind \in CandidateKinds) <=> LiveComplete(Head(pending))
               /\ ev'.kind \in {"noTorrent", "incomplete"}
                     => /\ ledger' = ledger
                        /\ file' = file
                        /\ nsaves' = nsaves
                        /\ dstFs' = dstFs
                        /\ pc' = NextPc(Tail(pending))]_vars

\* the for loop has just passed over an entry whose torrent is incomplete
C12_Witness ==
    /\ ev.kind = "incomplete"
    /\ log[Len(log)].out = "skip"
    /\ ledger[log[Len(log)].idx].copy_state \in {"NotCopied", "Failed"}
    /\ ~LiveComplete(log[Len(log)].idx)

-----------------------------------------------------------------------------
(* C13 *)

\* the ledger l with the entry at i in state st
WithState(l, i, st) == [l EXCEPT ![i].copy_state = st]

\* the reconciliation pass, the selection of pending and the decisions of
\* the for loop give the same for the ledger l with entry i Failed and
\* with entry i NotCopied
SameForFailed(l, i) ==
    LET f == ReconcileLoop(WithState(l, i, "Failed"), FALSE, torrents,
                           dstFs, config)
        n == ReconcileLoop(WithState(l, i, "NotCopied"), FALSE, torrents,
                           dstFs, config)
    IN  /\ f.changed = n.changed
        /\ n.ledger = IF f.ledger[i].copy_state = "Failed"
                         THEN WithState(f.ledger, i, "NotCopied")
                         ELSE f.ledger
        /\ Pending(f.ledger) = Pending(n.ledger)
        /\ \A p \in 1..Len(Pending(f.ledger)) :
              CopyDecision(f.ledger, Pending(f.ledger)[p], torrents, config,
                           dstFs, SrcEntries)
                = CopyDecision(n.ledger, Pending(f.ledger)[p], torrents,
                               config, dstFs, SrcEntries)

\* C13: for the daemon status, configuration and filesystem of a cycle, an
\* entry that starts the cycle Failed is reconciled, selected and decided
\* on exactly as if it were NotCopied; and when the for loop reaches a
\* Failed entry that is eligible, with its source present and its
\* destination path absent, it starts the copy again.
C13_FailedAsNotCopied ==
    /\ [](pc = "reconcile"
            => \A i \in 1..Len(ledger) :
                  ledger[i].copy_state = "Failed" => SameForFailed(ledger, i))
    /\ [][( /\ IsPendingStep
             /\ ledger[Head(pending)].copy_state = "Failed"
             /\ Eligible(ledger, Head(pending), torrents, config)
             /\ SourceExists(ledger, Head(pending), torrents)
             /\ ~DstExists(dstFs, ledger, Head(pending), torrents, config) )
            => /\ pc' = "copy"
               /\ cur' = Head(pending)
               /\ ledger' = WithState(ledger, Head(pending), "Copying")]_vars

\* the copy of an entry that started the cycle Failed is running again
C13_Witness ==
    /\ pc = "copy"
    /\ ev.kind = "copy"
    /\ snap.ledger[cur].copy_state = "Failed"
    /\ ledger[cur].copy_state = "Copying"

-----------------------------------------------------------------------------
(* C14 *)

\* the step is the reconciliation pass of the cycle
IsReconcileStep == pc = "reconcile" /\ pc' \in {"pending", "done"}

\* the entry at i is NotCopied or Failed and a path of its name exists
\* under the configured directory of its destination
StaleAtDestination(i) ==
    /\ ledger[i].copy_state \in {"NotCopied", "Failed"}
    /\ dir_for(config, ledger[i].destination) \notin {None, ""}
    /\ PathExists(dstFs, dir_for(config, ledger[i].destination), ledger[i].name)

\* the daemon returned a torrent with the hash of the entry at i, with a
\* name, and the entry is the first of the ledger with that hash
ReportedWithName(i) ==
    \E t \in 1..Len(torrents) :
        /\ torrents[t].hash_string # None
        /\ torrents[t].name = ledger[i].name
        /\ FindEntry(ledger, torrents[t].hash_string) = i

\* C14 as claimed: every entry that is NotCopied or Failed and whose files
\* exist at its configured destination is Copied after the reconciliation
\* pass.
C14_StaleIsCopied ==
    [][IsReconcileStep
          => \A i \in 1..Len(ledger) :
                StaleAtDestination(i) => ledger'[i].copy_state = "Copied"]_vars

\* C14 amended: every such entry for which the daemon returned a torrent
\* of its hash with its name is Copied after the reconciliation pass and
\* is not selected for the copy phase; the for loop of a cycle handles
\* only entries of its pending list.
C14_ReportedStaleIsCopied ==
    /\ [][IsReconcileStep
            => \A i \in 1..Len(ledger) :
                  (StaleAtDestination(i) /\ ReportedWithName(i))
                  => /\ ledger'[i].copy_state = "Copied"
                     /\ \A p \in 1..Len(pending') : pending'[p] # i]_vars
    /\ [](\A k \in 1..Len(log) :
            \E p \in 1..Len(snap.pending) : snap.pending[p] = log[k].idx)

\* the reconciliation pass has just set a Failed entry to Copied, and the
\* copy phase has nothing to do
C14_Witness ==
    /\ ev.kind = "reconciled"
    /\ pc = "done"
    /\ \E i \in 1..Len(snap.ledger) :
          /\ snap.ledger[i].copy_state = "Failed"
          /\ ledger[i].copy_state = "Copied"

-----------------------------------------------------------------------------
(* C15 *)

\* the entry e has been appended for a daemon torrent that had no entry
\* in the ledger l
AdoptedFrom(l, e) ==
    \E t \in 1..Len(torrents) :
        /\ torrents[t].hash_string = e.info_hash
        /\ torrents[t].name = e.name
        /\ FindEntry(l, e.info_hash) = 0

\* C15: every entry the reconciliation pass appends is for a daemon
\* torrent that had no entry, its files exist under the non-empty
\* configured directory of its destination, that destination is the one
\* detect_destination gives, and its state is Copied; with no destination
\* directory configured (absent or empty) the pass appends nothing.
C15_AdoptsOnlyFound ==
    [][IsReconcileStep
          => /\ \A j \in (Len(ledger) + 1)..Len(ledger') :
                  /\ AdoptedFrom(ledger, ledger'[j])
                  /\ ledger'[j].copy_state = "Copied"
                  /\ dir_for(config, ledger'[j].destination) \notin {None, ""}
                  /\ PathExists(dstFs, dir_for(config, ledger'[j].destination),
                                ledger'[j].name)
                  /\ detect_destination(dstFs, config, ledger'[j].name)
                        = <<ledger'[j].destination, "Copied">>
             /\ (\A d \in Destinations : dir_for(config, d) \in {None, ""})
                  => Len(ledger') = Len(ledger)]_vars

\* the reconciliation pass has just adopted a torrent found at a
\* destination
C15_Witness ==
    /\ ev.kind = "reconciled"
    /\ Len(ledger) = Len(snap.ledger) + 1
    /\ ledger[Len(ledger)].copy_state = "Copied"
    /\ snap.dst[<<dir_for(config, ledger[Len(ledger)].destination),
                  ledger[Len(ledger)].name>>] = "full"

-----------------------------------------------------------------------------
(* C16 *)

\* C16: every entry the reconciliation pass appends is for a torrent the
\* daemon reports as complete.
C16_AdoptsOnlyComplete ==
    [][IsReconcileStep
          => \A j \in (Len(ledger) + 1)..Len(ledger') :
                \E t \in 1..Len(torrents) :
                    /\ torrents[t].hash_string = ledger'[j].info_hash
                    /\ unwrap_or(torrents[t].percent_done, 0) >= 100]_vars

-----------------------------------------------------------------------------
(* C17 *)

\* C17: the reconciliation pass removes no entry, changes no info_hash,
\* name or destination, leaves Copying and Copied entries as they are, and
\* changes the copy_state of a NotCopied or Failed entry only to Copied.
C17_ReconcileFrame ==
    [][IsReconcileStep
          => /\ Len(ledger') >= Len(ledger)
             /\ \A i \in 1..Len(ledger) :
                  /\ ledger'[i].info_hash = ledger[i].info_hash
                  /\ ledger'[i].name = ledger[i].name
                  /\ ledger'[i].destination = ledger[i].destination
                  /\ ledger[i].copy_state \in {"Copying", "Copied"}
                        => ledger'[i] = ledger[i]
                  /\ ledger'[i].copy_state \in {ledger[i].copy_state, "Copied"}]_vars

\* the reconciliation pass has just changed the ledger and left alone a
\* Copying entry whose path exists at its destination
C17_Witness ==
    /\ ev.kind = "reconciled"
    /\ \E i \in 1..Len(snap.ledger) :
          /\ snap.ledger[i].copy_state = "Copying"
          /\ ledger[i] = snap.ledger[i]
          /\ FindTorrent(torrents, ledger[i].info_hash) # 0
          /\ DstExists(snap.dst, ledger, i, torrents, config)

-----------------------------------------------------------------------------
(* C18 *)

\* the reconciliation pass applied to the ledger l
Reconciled(l) == ReconcileLoop(l, FALSE, torrents, dstFs, config)

\* C18: with the daemon data and the filesystem of the cycle, the
\* reconciliation pass applied to its own result changes nothing and asks
\* for no save.
C18_ReconcileIdempotent ==
    pc = "reconcile"
        => /\ Reconciled(Reconciled(ledger).ledger).ledger
                = Reconciled(ledger).ledger
           /\ ~Reconciled(Reconciled(ledger).ledger).changed

\* a reconciliation pass that fixes an entry and adopts a torrent is about
\* to run
C18_Witness ==
    /\ pc = "reconcile"
    /\ Reconciled(ledger).changed
    /\ Len(Reconciled(ledger).ledger) > Len(ledger)
    /\ \E i \in 1..Len(ledger) :
          Reconciled(ledger).ledger[i].copy_state # ledger[i].copy_state

-----------------------------------------------------------------------------
(* C19 *)

\* C19: the reconciliation pass is applied to all the torrents of the
\* response before the for loop starts; when it changed the ledger, one
\* save of that ledger is attempted in the same step, and it is the only
\* save of the cycle so far; when it changed nothing, no save is made and
\* the file is left as it is.
C19_OneSaveAfterReconcile ==
    /\ [][IsReconcileStep
            => /\ ledger' = Reconciled(ledger).ledger
               /\ nsaves = 0
               /\ ledger' # ledger
                     => (nsaves' = 1 /\ saved' = ledger'
                            /\ (ev'.ok => file' = ledger'))
               /\ ledger' = ledger
                     => (nsaves' = 0 /\ file' = file /\ saved' = saved)]_vars
    /\ [][(pc \in {"wait", "fetch"})
            => (pc' \in {"wait", "fetch", "reconcile", "done"})]_vars

\* the reconciliation pass has changed the ledger and saved it once, and
\* the for loop is about to start
C19_Witness ==
    /\ ev.kind = "reconciled" /\ ev.ok
    /\ pc = "pending"
    /\ nsaves = 1
    /\ file = ledger
    /\ ledger # snap.ledger
    /\ log = <<>>

-----------------------------------------------------------------------------
(* C20 *)

\* the state the for loop left the entry of the log record r in
FinalState(r) == IF r.out = "already" THEN "Copied" ELSE r.out

\* the ledger file records the final state of the entry of log record r
InFile(r) ==
    \E j \in 1..Len(file) :
        /\ eq_ignore_ascii_case(file[j].info_hash, ledger[r.idx].info_hash)
        /\ file[j].copy_state = FinalState(r)

\* C20 as claimed: as long as no save has failed, at every point from the
\* first finished entry of the copy phase to the start of the next cycle
\* (where the process may crash) the ledger file records the final state of
\* every entry the for loop has finished in this cycle, and the for loop
\* takes the entries in ledger order.
C20_FinalStatesInFile ==
    /\ ~saveFailed
          => \A k \in 1..Len(log) :
                log[k].out \in {"Copied", "Failed", "already"} => InFile(log[k])
    /\ \A k \in 1..Len(log), k2 \in 1..Len(log) :
          k < k2 => log[k].idx < log[k2].idx

-----------------------------------------------------------------------------
(* C21 *)

\* the ways a cycle ends before the reconciliation: the URL does not parse,
\* the request fails, the response is not a success
FetchFailKinds == {"invalidUrl", "transport", "rpc"}

\* C21: a step of the task that meets a malformed URL, a failed request or
\* an RPC-level failure ends the cycle, with the ledger file, the
\* destinations and the task's ledger as they were and no save made; from
\* there the task can only go back to its wait, and it can; the
\* reconciliation and the copy phase run only in a cycle whose URL parsed
\* and whose response was a success.
C21_FetchFailureEndsCycle ==
    /\ [][ev'.kind \in FetchFailKinds
            => /\ pc' = "done"
               /\ file' = file /\ dstFs' = dstFs /\ mem' = mem
               /\ ledger' = IF ev'.kind = "invalidUrl" THEN file ELSE ledger
               /\ nsaves' = 0 /\ pending' = <<>> /\ log' = <<>>]_vars
    /\ []((pc = "done" /\ ev.kind \in FetchFailKinds) => ENABLED Loop)
    /\ [][(pc = "done" /\ pc' # "done") => pc' = "wait"]_vars
    /\ [][(pc' = "reconcile" /\ pc # "reconcile")
            => (ev'.kind = "fetched" /\ config.host # "")]_vars
    /\ [](pc \in {"reconcile", "pending", "copy", "result"}
            => config.host # "")

\* a cycle has just ended on an RPC-level failure although the ledger file
\* holds a NotCopied entry whose path exists at its destination
C21_Witness ==
    /\ pc = "done" /\ ev.kind = "rpc"
    /\ \E i \in 1..Len(file) :
          /\ file[i].copy_state = "NotCopied"
          /\ check_already_copied(dstFs, config, file[i].destination, file[i].name)
    /\ ledger = file

-----------------------------------------------------------------------------
(* C22 *)

\* the select! completes on notify.notified(): the stored permit is taken
WokenByNotify == Wake /\ permit /\ ~permit'

\* the steps of the task while the 30-second timer never fires, with no
\* I/O error on the ledger file
NotifyTask ==
    \/ WokenByNotify
    \/ Fetch(AllFetches)
    \/ Reconcile({TRUE})
    \/ PendingStep({TRUE})
    \/ CopyStep(BOOLEAN)
    \/ CopyResult({TRUE}, {TRUE})
    \/ Loop

NotifyNext == add_download({TRUE}) \/ NotifyTask

\* the task is one future: it is polled whenever its await can complete
NotifySpec == Init /\ [][NotifyNext]_vars /\ WF_vars(NotifyTask)

\* a cycle has just begun
CycleBegun == ev.kind \in {"wake", "invalidUrl"}

\* C22: with the timer never firing, a successful add_download leaves a
\* permit whatever the task is doing, the permit is kept until the task
\* takes it at its select!, which starts a cycle, and that cycle does start:
\* at once when the task is waiting, after the end of the current cycle
\* otherwise.
C22_AddWakesLoop ==
    /\ [][(ev'.kind = "add" /\ ev'.ok) => permit']_vars
    /\ [][(permit /\ ~permit') => (pc = "wait" /\ CycleBegun')]_vars
    /\ []((permit /\ pc = "wait") => ENABLED WokenByNotify)
    /\ ((ev.kind = "add" /\ ev.ok) ~> CycleBegun)

\* add_download has succeeded while a copy was running
C22_Witness ==
    /\ ev.kind = "add" /\ ev.ok
    /\ pc = "copy" /\ prog >= 1
    /\ permit

-----------------------------------------------------------------------------
(* C23 *)

\* C23 as claimed: in a run with no failed write and no restart so far, a
\* successful add_download writes the ledger file's contents with its one
\* change applied, so that every entry of the file for another hash, as the
\* task last saved it, is still in the file afterwards.
C23_AddKeepsLoopWrites ==
    [][(ev'.kind = "add" /\ ev'.ok /\ faults' = 0)
          => /\ \E d \in Destinations :
                  file' = AddEntry(file, ev'.hash, NameOf(ev'.hash), d)
             /\ \A i \in 1..Len(file) :
                  ~eq_ignore_ascii_case(file[i].info_hash, ev'.hash)
                      => \E j \in 1..Len(file') : file'[j] = file[i]]_vars

-----------------------------------------------------------------------------
(* C24 *)

\* C24 as claimed: in a run with no failed write and no restart so far, the
\* step that starts a cycle loads the contents of the config file and of
\* the ledger file, and the ledger it loads has, for every entry
\* add_download has written, an entry of that hash with that destination.
C24_CycleSeesAdds ==
    [][(pc = "wait" /\ CycleBegun' /\ faults' = 0)
          => /\ config' = cfgFile
             /\ ledger' = file
             /\ \A i \in 1..Len(mem) :
                  \E j \in 1..Len(ledger') :
                      /\ eq_ignore_ascii_case(ledger'[j].info_hash, mem[i].info_hash)
                      /\ ledger'[j].destination = mem[i].destination]_vars

-----------------------------------------------------------------------------
(* C25 *)

\* the command get_downloads_ledger: a clone of App.downloads_ledger
get_downloads_ledger == mem

\* the copy_state get_torrents reports for a daemon torrent with this hash
\* and name, from the in-memory ledger l and the in-memory configuration
get_torrents_copy_state(l, fs, cfg, hash_string, name) ==
    LET i == FindEntry(l, hash_string)
        d == detect_destination(fs, cfg, name)
    IN  IF i # 0
        THEN IF /\ l[i].copy_state \in {"NotCopied", "Failed"}
                /\ check_already_copied(fs, cfg, l[i].destination, name)
             THEN "Copied"
             ELSE l[i].copy_state
        ELSE IF d # <<>> THEN d[2] ELSE "NotCopied"

\* the steps of the task that save a copy-state transition of an entry
TransitionKinds == {"copy", "copyOk", "copyErr", "already"}

\* C25 as claimed: in a run with no failed write and no restart so far,
\* right after the task has saved a transition of an entry, the ledger
\* get_downloads_ledger returns has the entry in the state the file
\* records, and get_torrents reports that state for the entry's torrent.
C25_CommandsReportPersisted ==
    (faults = 0 /\ ev.kind \in TransitionKinds)
        => LET i == FindEntry(file, ev.hash)
               j == FindEntry(get_downloads_ledger, ev.hash)
           IN  /\ i # 0 /\ j # 0
               /\ get_downloads_ledger[j].copy_state = file[i].copy_state
               /\ \A t \in 1..Len(torrents) :
                    ( /\ torrents[t].hash_string # None
                      /\ torrents[t].name # None
                      /\ eq_ignore_ascii_case(torrents[t].hash_string, ev.hash) )
                    => get_torrents_copy_state(mem, dstFs, cfgFile,
                                               torrents[t].hash_string,
                                               torrents[t].name)
                          = file[i].copy_state

-----------------------------------------------------------------------------
(* C26 *)

\* no two entries of l have the same info_hash up to ASCII case
UniqueHashes(l) ==
    \A i \in 1..Len(l), j \in 1..Len(l) :
        Lower(l[i].info_hash) = Lower(l[j].info_hash) => i = j

\* C26: the in-memory ledger of the commands, the ledger file and the
\* task's ledger never hold two entries whose info_hash differ at most in
\* ASCII case.
C26_UniqueHashes ==
    UniqueHashes(mem) /\ UniqueHashes(file) /\ UniqueHashes(ledger)

\* hash A was added twice and the daemon's torrent a was matched with its
\* entry by the reconciliation pass instead of being adopted
C26_Witness ==
    /\ adds = 2 /\ Len(mem) = 1 /\ mem[1].info_hash = "A"
    /\ pc = "pending"
    /\ Len(ledger) = 1 /\ ledger[1].info_hash = "A"
    /\ FindTorrent(torrents, "A") # 0
    /\ torrents[FindTorrent(torrents, "A")].hash_string = "a"
    /\ torrents[FindTorrent(torrents, "A")].name # None
    /\ detect_destination(dstFs, config, "x") # <<>>

-----------------------------------------------------------------------------
(* C27 *)

\* the steps of the task that call save_ledger
SaveKinds == {"reconciled"} \cup TransitionKinds

\* C27: when a save of the task fails, the file is left as it was, the
\* task's ledger has the change all the same, and the task goes on as after
\* a successful save: to the for loop after the reconciliation, to the copy
\* after the Copying save, to the next pending entry after the other saves,
\* with none of the remaining entries dropped; the final save of a copy
\* whose Copying save failed writes the final state; and at the end of the
\* cycle the task can go back to its wait.
C27_FailedSaveNotFatal ==
    /\ [][(ev'.kind \in SaveKinds /\ ~ev'.ok)
            => /\ file' = file /\ crashed' = crashed
               /\ ev'.kind = "reconciled"
                    => /\ ledger' = Reconciled(ledger).ledger /\ ledger' # ledger
                       /\ pending' = Pending(ledger')
                       /\ pc' = NextPc(pending')
               /\ ev'.kind = "already"
                    => /\ ledger' = MarkCopied(ledger, Head(pending))
                       /\ pending' = Tail(pending)
                       /\ pc' = NextPc(pending')
               /\ ev'.kind = "copy"
                    => /\ ledger' = StartCopy(ledger, Head(pending))
                       /\ pending' = Tail(pending)
                       /\ cur' = Head(pending)
                       /\ pc' = "copy"
               /\ ev'.kind \in {"copyOk", "copyErr"}
                    => /\ ledger'[cur].copy_state = CopyResultState(copyOk)
                       /\ pending' = pending
                       /\ pc' = NextPc(pending)]_vars
    /\ [][(ev'.kind \in {"copyOk", "copyErr"} /\ ev'.ok)
            => (file' = ledger' /\ file'[cur].copy_state \in {"Copied", "Failed"})]_vars
    /\ [](pc = "done" => ENABLED Loop)

\* the save of Copying failed, the copy ran all the same and its final save
\* wrote Copied, and the task is about to handle the next pending entry
C27_Witness ==
    /\ saveFailed /\ ~crashed
    /\ ev.kind = "copyOk" /\ ev.ok
    /\ pc = "pending"
    /\ snap.ledger[cur].copy_state = "NotCopied"
    /\ file[cur].copy_state = "Copied"
    /\ nsaves = 2
    /\ faults = 1

-----------------------------------------------------------------------------
(* C28 *)

\* a file as the loaders find it: absent, present but unreadable, readable
\* but not the JSON of the expected type, or the JSON of a value
Disk(st, c) == [status |-> st, content |-> c]

BadStatuses == {"absent", "unreadable", "unparsable"}

TransmissionConfig(h, pt, u, pw, m, sh) ==
    [host |-> h, port |-> pt, username |-> u, password |-> pw,
     movies_dir |-> m, shows_dir |-> sh]

\* impl Default for TransmissionConfig
TransmissionConfig_default ==
    TransmissionConfig("localhost", 9091, None, None, None, None)

ConfigDisks ==
    { Disk(st, None) : st \in BadStatuses }
        \cup { Disk("ok", c) :
                 c \in { TransmissionConfig_default,
                         TransmissionConfig("nas", 9091, "u", "p", "m", None),
                         TransmissionConfig("localhost", 9091, "", "", "", "s"),
                         TransmissionConfig("", 80, None, None, "m", "s") } }

LedgerDisks ==
    { Disk(st, None) : st \in BadStatuses }
        \cup { Disk("ok", l) :
                 l \in { <<>>,
                         <<DownloadEntry("A", "x", "Movies", "Copying")>>,
                         <<DownloadEntry("A", "x", "Shows", "Failed"),
                           DownloadEntry("b", "y", "Movies", "Copied")>> } }

\* mutant: only an absent file gives the empty ledger
App_load_ledgerStrict(d) ==
    IF d.status = "absent" THEN <<>>
    ELSE IF d.status = "ok" THEN d.content ELSE <<"Err">>

\* App::load_ledger
App_load_ledger(d) ==
    IF d.status # "absent"
    THEN IF d.status # "unreadable"
         THEN IF d.status = "ok" THEN d.content ELSE <<>>
         ELSE <<>>
    ELSE <<>>

\* App::load_config
App_load_config(d) ==
    IF d.status # "absent"
    THEN IF d.status # "unreadable"
         THEN IF d.status = "ok" THEN d.content ELSE TransmissionConfig_default
         ELSE TransmissionConfig_default
    ELSE TransmissionConfig_default

\* the two files in any condition, before the loads of a cycle
LoadInit ==
    /\ file \in LedgerDisks
    /\ cfgFile \in ConfigDisks
    /\ mem = <<>>
    /\ dstFs = NoDst
    /\ permit = FALSE
    /\ pc = "wait"
    /\ config = None
    /\ ledger = None
    /\ torrents = <<>>
    /\ pending = <<>>
    /\ cur = 0
    /\ prog = 0
    /\ copyOk = TRUE
    /\ crashed = FALSE
    /\ ev = Ev("init", "-", TRUE)
    /\ log = <<>>
    /\ snap = Snap(<<>>, NoDst, <<>>)
    /\ saved = <<>>
    /\ nsaves = 0
    /\ saveFailed = FALSE
    /\ adds = 0
    /\ faults = 0
    /\ memCfg = App_load_config(cfgFile)
    /\ tree = Absent
    /\ setCall = <<>>
    /\ category = 0

\* let config = App::load_config(&config_path)
LoadConfigStep ==
    /\ pc = "wait"
    /\ config' = App_load_config(cfgFile)
    /\ pc' = "configLoaded"
    /\ ev' = Ev("loadConfig", "-", TRUE)
    /\ UNCHANGED <<memCfg, tree, setCall, category>>
    /\ UNCHANGED <<file, mem, cfgFile, dstFs, permit, ledger, torrents,
                   pending, cur, prog, copyOk, crashed, log, snap,
                   saveFailed, adds, faults, saved, nsaves>>

\* let mut ledger = App::load_ledger(&ledger_path)
LoadLedgerStep ==
    /\ pc = "configLoaded"
    /\ ledger' = App_load_ledger(file)
    /\ pc' = "ledgerLoaded"
    /\ ev' = Ev("loadLedger", "-", TRUE)
    /\ UNCHANGED <<memCfg, tree, setCall, category>>
    /\ UNCHANGED <<file, mem, cfgFile, dstFs, permit, config, torrents,
                   pending, cur, prog, copyOk, crashed, log, snap,
                   saveFailed, adds, faults, saved, nsaves>>

LoadNext == LoadConfigStep \/ LoadLedgerStep

LoadSpec == LoadInit /\ [][LoadNext]_vars

\* C28: whatever the condition of the two files, both loads return a
\* value: load_config the file's configuration when the file holds one and
\* otherwise host localhost, port 9091, no credentials and no destination
\* directory; load_ledger the file's entries when the file holds a ledger
\* and otherwise the empty sequence.
C28_LoadNeverFails ==
    /\ pc = "wait" => ENABLED LoadConfigStep
    /\ pc = "configLoaded" => ENABLED LoadLedgerStep
    /\ pc \in {"configLoaded", "ledgerLoaded"}
          => /\ cfgFile.status = "ok" => config = cfgFile.content
             /\ cfgFile.status \in BadStatuses
                  => config = [host |-> "localhost", port |-> 9091,
                               username |-> None, password |-> None,
                               movies_dir |-> None, shows_dir |-> None]
    /\ pc = "ledgerLoaded"
          => /\ file.status = "ok" => ledger = file.content
             /\ file.status \in BadStatuses => ledger = <<>>

\* both loads have returned with an unparsable ledger file and an
\* unreadable config file
C28_Witness ==
    /\ pc = "ledgerLoaded"
    /\ file.status = "unparsable"
    /\ cfgFile.status = "unreadable"
    /\ ledger = <<>>
    /\ config.host = "localhost"

-----------------------------------------------------------------------------
(* C29 *)

\* the positions of the in-memory ledger whose info_hash is h up to ASCII
\* case
Matching(h) == { i \in 1..Len(mem) : Lower(mem[i].info_hash) = Lower(h) }

\* C29: add_download on a hash the in-memory ledger already has (up to
\* ASCII case) sets the destination of that entry to the given one and its
\* copy_state to NotCopied, whatever the state was, and keeps its info_hash
\* and name; on an unknown hash it appends one NotCopied entry with the
\* given hash, name and destination; all other entries keep their place
\* and contents; the whole ledger is written to the file, and when the
\* write fails the command returns the error and the file is as before.
C29_AddFrame ==
    [][ev'.kind = "add"
          => /\ \A i \in Matching(ev'.hash) :
                  /\ Len(mem') = Len(mem)
                  /\ mem'[i] = [mem[i] EXCEPT !.destination = ev'.dest,
                                              !.copy_state = "NotCopied"]
                  /\ \A k \in 1..Len(mem) : k # i => mem'[k] = mem[k]
             /\ Matching(ev'.hash) = {}
                  => /\ Len(mem') = Len(mem) + 1
                     /\ mem'[Len(mem')] =
                          [info_hash |-> ev'.hash, name |-> NameOf(ev'.hash),
                           destination |-> ev'.dest, copy_state |-> "NotCopied"]
                     /\ \A k \in 1..Len(mem) : mem'[k] = mem[k]
             /\ ev'.ok => file' = mem'
             /\ ~ev'.ok => file' = file]_vars

\* after a restart reloaded the in-memory ledger from the file,
\* add_download has just set a tracked entry to Shows and NotCopied, next
\* to another entry, and written both to the file
C29_Witness ==
    /\ ev.kind = "add" /\ ev.ok /\ crashed
    /\ Len(mem) = 2
    /\ \E i \in 1..2 :
          /\ Lower(mem[i].info_hash) = Lower(ev.hash)
          /\ mem[i].destination = "Shows"
          /\ mem[i].copy_state = "NotCopied"
    /\ file = mem
    /\ dstFs[<<"m", "x">>] = "full"

-----------------------------------------------------------------------------
(* C30 *)

\* the ledger l has an entry of hash h in state Copying
HasCopying(l, h) ==
    \E i \in 1..Len(l) :
        Lower(l[i].info_hash) = Lower(h) /\ l[i].copy_state = "Copying"

\* a cycle is running whose load found the entry of hash h as Copying
CopyingAtStart(h) ==
    /\ pc \in {"fetch", "reconcile", "pending", "copy", "result", "done"}
    /\ HasCopying(snap.ledger, h)

\* C30 as claimed: an entry the cycle's load found as Copying stays as it
\* was in the task's ledger and is never the entry being copied, and it
\* stays Copying in the ledger file through every step that is not an
\* add_download for its hash.
C30_CopyingStaysCopying ==
    /\ [](\A i \in 1..Len(snap.ledger) :
            (CopyingAtStart(snap.ledger[i].info_hash)
                /\ snap.ledger[i].copy_state = "Copying")
            => /\ ledger[i] = snap.ledger[i]
               /\ ~(pc \in {"copy", "result"} /\ cur = i))
    /\ [][\A h \in {"a", "b"} :
            ( /\ CopyingAtStart(h)
              /\ HasCopying(file, h)
              /\ ~(ev'.kind = "add" /\ Lower(ev'.hash) = h) )
            => HasCopying(file', h)]_vars

-----------------------------------------------------------------------------
(* C31 *)

\* C31 as claimed: with the configuration of the running cycle and the
\* destinations as they are, check_already_copied is true exactly when the
\* directory of the destination is configured, is not the empty string and
\* holds an entry of the given name.
C31_ProbeIff ==
    \A dest \in Destinations, name \in Names :
        check_already_copied(dstFs, config, dest, name)
            <=> /\ dir_for(config, dest) # None
                /\ dir_for(config, dest) # ""
                /\ dstFs[<<dir_for(config, dest), name>>] # "none"

-----------------------------------------------------------------------------
(* C32 *)

\* the name exists under the directory dir, which is configured and not
\* the empty string
FoundUnder(dir, name) ==
    dir # None /\ dir # "" /\ dstFs[<<dir, name>>] # "none"

\* C32: with the configuration of the running cycle and the destinations
\* as they are, detect_destination gives (Movies, Copied) whenever the name
\* exists under a non-empty configured movies directory, (Shows, Copied)
\* when it does not and the name exists under a non-empty configured shows
\* directory, and None otherwise.
C32_MoviesFirst ==
    \A name \in Names :
        /\ FoundUnder(config.movies_dir, name)
              => detect_destination(dstFs, config, name) = <<"Movies", "Copied">>
        /\ (~FoundUnder(config.movies_dir, name)
                /\ FoundUnder(config.shows_dir, name))
              => detect_destination(dstFs, config, name) = <<"Shows", "Copied">>
        /\ (~FoundUnder(config.movies_dir, name)
                /\ ~FoundUnder(config.shows_dir, name))
              => detect_destination(dstFs, config, name) = <<>>

\* the reconciliation is about to run with the name x present under both
\* directories, so that the order of the probes decides the result
C32_Witness ==
    /\ pc = "reconcile"
    /\ FoundUnder(config.movies_dir, "x") /\ FoundUnder(config.shows_dir, "x")
    /\ detect_destination(dstFs, config, "x") = <<"Movies", "Copied">>

-----------------------------------------------------------------------------
(* copy_recursive_async over bounded trees *)

\* the names the entries of a source directory can have
ChildNames == {"a", "b"}

\* the depth of the source trees below the source path
MaxDepth == 2

File(c) == [kind |-> "file", data |-> c]

Dir(es) == [kind |-> "dir", entries |-> es]

EmptyDir == Dir([n \in {} |-> Absent])

\* the source trees of depth at most d: a file, or a directory whose
\* entries are trees of depth at most d - 1
RECURSIVE Trees(_)
Trees(d) ==
    {File("f")} \cup
    IF d = 0
    THEN {EmptyDir}
    ELSE UNION { {Dir(es) : es \in [S -> Trees(d - 1)]} : S \in SUBSET ChildNames }

\* src = download_dir/name and dst = dest_dir/name of the copy phase
SrcRoot == <<"dl", "t">>

DstRoot == <<"m", "t">>

\* the paths below the source path, relative to it
RelPaths == UNION { [1..k -> ChildNames] : k \in 0..MaxDepth }

\* Path::parent
Parent(path) == SubSeq(path, 1, Len(path) - 1)

\* what is at the path `path` below the directory `node`
RECURSIVE Lookup(_, _)
Lookup(node, path) ==
    IF path = <<>> THEN node
    ELSE IF node.kind = "dir" /\ Head(path) \in DOMAIN node.entries
         THEN Lookup(node.entries[Head(path)], Tail(path))
         ELSE Absent

\* the directory `node` with `new` at the path `path`, whose parent is a
\* directory
RECURSIVE Put(_, _, _)
Put(node, path, new) ==
    IF path = <<>> THEN new
    ELSE Dir([n \in DOMAIN node.entries \cup {Head(path)} |->
                IF n = Head(path)
                THEN Put(IF n \in DOMAIN node.entries
                         THEN node.entries[n] ELSE Absent,
                         Tail(path), new)
                ELSE node.entries[n]])

\* the file systems copy_recursive_async is called on: a source tree at
\* src, and at the destination no directory at all, an empty destination
\* directory, a leftover directory at dst, a file at dst, or a file in the
\* place of the destination directory
CopyDisks ==
    { Dir(("dl" :> Dir("t" :> s)) @@ m) :
        s \in Trees(MaxDepth),
        m \in { [n \in {} |-> Absent],
                "m" :> EmptyDir,
                "m" :> Dir("t" :> Dir("a" :> Dir(("a" :> File("g"))
                                                 @@ ("b" :> File("g"))))),
                "m" :> Dir("t" :> File("g")),
                "m" :> File("g") } }

\* an I/O error: the operation on the path `at` fails, a failing copy
\* leaving a truncated file or nothing
IoFault(at, partial) == [at |-> at, partial |-> partial]

NoFault == IoFault(<<>>, FALSE)

CopyFaults ==
    {NoFault} \cup
    { IoFault(root \o rel, b) :
        root \in {SrcRoot, DstRoot}, rel \in RelPaths, b \in BOOLEAN }

\* the orders in which read_dir can yield the entries of a directory
Orders == { <<"a", "b">>, <<"b", "a">> }

FsResult(ok, fs) == [ok |-> ok, fs |-> fs]

\* Path::is_dir
is_dir(fs, path) == Lookup(fs, path).kind = "dir"

\* tokio::fs::create_dir_all from the k-th component of the path on: every
\* missing directory is created, a file in the way is an error
RECURSIVE MkDirs(_, _, _, _)
MkDirs(fs, path, k, bad) ==
    IF k > Len(path) THEN FsResult(TRUE, fs)
    ELSE LET p == SubSeq(path, 1, k)
             node == Lookup(fs, p)
         IN  IF node.kind = "dir" THEN MkDirs(fs, path, k + 1, bad)
             ELSE IF node.kind = "none" /\ p # bad.at
                  THEN MkDirs(Put(fs, p, EmptyDir), path, k + 1, bad)
                  ELSE FsResult(FALSE, fs)

create_dir_all(fs, path, bad) == MkDirs(fs, path, 1, bad)

\* mutant: the file is created at the destination with no content
fs_copyTruncated(fs, from, to, bad) ==
    LET s == Lookup(fs, from)
    IN  IF /\ s.kind = "file"
           /\ Lookup(fs, Parent(to)).kind = "dir"
           /\ Lookup(fs, to).kind # "dir"
        THEN FsResult(from # bad.at /\ to # bad.at, Put(fs, to, File("")))
        ELSE FsResult(FALSE, fs)

\* tokio::fs::copy: the content of the file `from` becomes the content of
\* the file `to`, which is created or overwritten
fs_copy(fs, from, to, bad) ==
    LET s == Lookup(fs, from)
    IN  IF /\ s.kind = "file"
           /\ Lookup(fs, Parent(to)).kind = "dir"
           /\ Lookup(fs, to).kind # "dir"
        THEN IF from # bad.at /\ to # bad.at
             THEN FsResult(TRUE, Put(fs, to, File(s.data)))
             ELSE FsResult(FALSE, IF bad.partial
                                  THEN Put(fs, to, File("")) ELSE fs)
        ELSE FsResult(FALSE, fs)

\* the entries read_dir yields for the directory, in the order ord
read_dir(fs, path, ord) ==
    SelectSeq(ord, LAMBDA n : n \in DOMAIN Lookup(fs, path).entries)

RECURSIVE copy_recursive_async(_, _, _, _, _)
RECURSIVE CopyEntries(_, _, _, _, _, _)

\* the while loop over the entries `names` of the directory src
CopyEntries(fs, src, dst, names, ord, bad) ==
    IF names = <<>> THEN FsResult(TRUE, fs)
    ELSE \* the first error ends the copy (`?`)
         LET r == copy_recursive_async(fs, src \o <<Head(names)>>,
                                       dst \o <<Head(names)>>, ord, bad)
         IN  IF r.ok
             THEN CopyEntries(r.fs, src, dst, Tail(names), ord, bad)
             ELSE r

copy_recursive_async(fs, src, dst, ord, bad) ==
    IF is_dir(fs, src)
    THEN LET m == create_dir_all(fs, dst, bad)
         IN  IF ~m.ok THEN m
             ELSE IF src = bad.at THEN FsResult(FALSE, m.fs)
             ELSE CopyEntries(m.fs, src, dst, read_dir(m.fs, src, ord),
                              ord, bad)
    ELSE LET m == create_dir_all(fs, Parent(dst), bad)
         IN  IF ~m.ok THEN m ELSE fs_copy(m.fs, src, dst, bad)

\* the call is about to be made on any of the file systems
CopyInit ==
    /\ tree \in CopyDisks
    /\ setCall = <<>>
    /\ category = 0
    /\ pc = "call"
    /\ copyOk = TRUE
    /\ file = <<>>
    /\ mem = <<>>
    /\ cfgFile = DefaultConfig
    /\ memCfg = DefaultConfig
    /\ dstFs = NoDst
    /\ permit = FALSE
    /\ config = DefaultConfig
    /\ ledger = <<>>
    /\ torrents = <<>>
    /\ pending = <<>>
    /\ cur = 0
    /\ prog = 0
    /\ crashed = FALSE
    /\ ev = Ev("init", "-", TRUE)
    /\ log = <<>>
    /\ snap = Snap(<<>>, NoDst, <<>>)
    /\ saved = <<>>
    /\ nsaves = 0
    /\ saveFailed = FALSE
    /\ adds = 0
    /\ faults = 0

\* copy_recursive_async(&src_path, &dst_path).await, from the call to the
\* result
CopyCall ==
    /\ pc = "call"
    /\ \E ord \in Orders, bad \in CopyFaults :
        \E r \in {copy_recursive_async(tree, SrcRoot, DstRoot, ord, bad)} :
            /\ tree' = r.fs
            /\ copyOk' = r.ok
    /\ pc' = "returned"
    /\ ev' = Ev("copyCall", "-", TRUE)
    /\ UNCHANGED <<file, mem, cfgFile, memCfg, dstFs, permit, config, ledger,
                   torrents, pending, cur, prog, crashed, log, snap,
                   saveFailed, adds, faults, saved, nsaves, setCall,
                   category>>

CopyNext == CopyCall

CopySpec == CopyInit /\ [][CopyNext]_vars

(* C33 *)

\* every directory of the source is a directory at the corresponding
\* path of the destination, and every file of the source is a file of the
\* same content there
SameStructure(before, after) ==
    \A rel \in RelPaths :
        LET s == Lookup(before, SrcRoot \o rel)
            d == Lookup(after, DstRoot \o rel)
        IN  /\ s.kind = "dir" => d.kind = "dir"
            /\ s.kind = "file" => (d.kind = "file" /\ d.data = s.data)

\* C33: whenever copy_recursive_async returns Ok for a source that is a
\* file or a directory tree, every directory of the source exists at the
\* corresponding destination path, every file of the source is at the
\* corresponding destination path with the source's content, and what is
\* at the source path is what was there before the call.
C33_CopyPreservesStructure ==
    [][(CopyCall /\ copyOk')
         => /\ SameStructure(tree, tree')
            /\ Lookup(tree', SrcRoot) = Lookup(tree, SrcRoot)]_vars

\* the copy of a directory that holds a file and a subdirectory with a
\* file of its own has returned Ok, over a leftover at the destination of
\* which one file was overwritten and the other is still there
C33_Witness ==
    /\ pc = "returned"
    /\ copyOk
    /\ Lookup(tree, SrcRoot \o <<"b">>).kind = "file"
    /\ Lookup(tree, SrcRoot \o <<"a", "a">>).kind = "file"
    /\ Lookup(tree, SrcRoot \o <<"a", "b">>).kind = "none"
    /\ Lookup(tree, DstRoot \o <<"b">>) = File("f")
    /\ Lookup(tree, DstRoot \o <<"a", "a">>) = File("f")
    /\ Lookup(tree, DstRoot \o <<"a", "b">>) = File("g")

-----------------------------------------------------------------------------
(* C34 *)

\* the ledger l has an entry of the hash of e with the destination of e
HasEffect(l, e) ==
    \E j \in 1..Len(l) :
        /\ eq_ignore_ascii_case(l[j].info_hash, e.info_hash)
        /\ l[j].destination = e.destination

\* C34 as claimed: in a run with no failed write and no restart so far,
\* where the in-memory ledger holds exactly what the successful
\* add_download calls have appended or re-targeted, no step of the
\* background loop takes out of the ledger file an entry add_download has
\* written there, or gives it another destination.
C34_LoopKeepsAdds ==
    [][(ev'.kind # "add" /\ faults' = 0)
          => \A i \in 1..Len(mem) :
                HasEffect(file, mem[i]) => HasEffect(file', mem[i])]_vars

-----------------------------------------------------------------------------
(* C35 *)

\* the destination path of the entry e of the ledger file under the
\* configuration of the config file
EntryPath(e) == <<dir_for(cfgFile, e.destination), e.name>>

\* C35 as claimed: in every reachable state, no entry the ledger file
\* records as Copied has a destination path that holds only a part of the
\* source.
C35_CopiedIsComplete ==
    \A i \in 1..Len(file) :
        (file[i].copy_state = "Copied" /\ EntryPath(file[i]) \in DestPaths)
            => dstFs[EntryPath(file[i])] # "partial"

-----------------------------------------------------------------------------
(* C36 *)

\* C36 as claimed: an add_download call that returns the error of the
\* write of the ledger file leaves the in-memory ledger, the ledger file
\* and the permit of the notification as they were before the call.
C36_FailedAddChangesNothing ==
    [][(ev'.kind = "add" /\ ~ev'.ok)
          => (mem' = mem /\ file' = file /\ permit' = permit)]_vars

-----------------------------------------------------------------------------
(* set_transmission_config *)

\* a set_transmission_config call: its argument and the result of its save
SetEv(c, ok) ==
    [kind |-> "setConfig", hash |-> "-", ok |-> ok, rm |-> TRUE, cfg |-> c]

\* App::save_config: the file holds the configuration, or the write fails
save_config(c, ok) == IF ok THEN c ELSE cfgFile

\* mutant: the error of the save is ignored and the call goes on
SaveResultIgnored(c, ok) == <<c>>

\* `App::save_config(...)?`: on Ok the call goes on with its argument, on
\* Err it returns
SaveResult(c, ok) == IF ok THEN <<c>> ELSE <<>>

\* set_transmission_config up to `state.transmission_config.lock().await`
set_transmission_config(S) ==
    /\ setCall = <<>>
    /\ \E c \in Configs, ok \in S :
        /\ ok \/ faults < MaxFaults
        /\ faults' = Fault(faults, ok)
        /\ cfgFile' = save_config(c, ok)
        /\ setCall' = SaveResult(c, ok)
        /\ ev' = SetEv(c, ok)
    /\ UNCHANGED <<file, mem, memCfg, dstFs, permit, pc, config, ledger,
                   torrents, pending, cur, prog, copyOk, crashed, log, snap,
                   saveFailed, adds, saved, nsaves, tree, category>>

\* `*current = config; Ok(())` once the lock is held
SetStore ==
    /\ setCall # <<>>
    /\ memCfg' = setCall[1]
    /\ setCall' = <<>>
    /\ ev' = Ev("setStored", "-", TRUE)
    /\ UNCHANGED <<file, mem, cfgFile, dstFs, permit, pc, config, ledger,
                   torrents, pending, cur, prog, copyOk, crashed, log, snap,
                   saveFailed, adds, faults, saved, nsaves, tree, category>>

\* the daemon cannot be reached or answers with an error
FailedFetches == { r \in AllFetches : r.status # "ok" }

\* the calls of set_transmission_config, one after the other, next to the
\* cycles of a task that loads the configuration and reaches no daemon
ConfigNext ==
    \/ set_transmission_config(BOOLEAN)
    \/ SetStore
    \/ Wake
    \/ Fetch(FailedFetches)
    \/ Loop
    \/ Crash

ConfigSpec == Init /\ [][ConfigNext]_vars

(* C37 *)

\* the configuration get_torrents and test_transmission_connection read
\* under the lock
get_transmission_config == memCfg

-----------------------------------------------------------------------------
(* get_torrents *)

\* Option<String>::unwrap_or_default
unwrap_or_default(opt) == IF opt = None THEN "" ELSE opt

\* the destination and the copy_state of a TransmissionTorrent
Report(d, st) == [destination |-> d, copy_state |-> st]

\* the closure of get_torrents' map: the cross-reference of the daemon
\* torrent t with the ledger l
get_torrents_map(l, fs, cfg, t) ==
    LET hash_string == unwrap_or_default(t.hash_string)
        name == unwrap_or_default(t.name)
        i == FindEntry(l, hash_string)
        d == detect_destination(fs, cfg, name)
    IN  IF i # 0
        THEN Report(l[i].destination,
                    IF /\ l[i].copy_state \in {"NotCopied", "Failed"}
                       /\ check_already_copied(fs, cfg, l[i].destination, name)
                    THEN "Copied"
                    ELSE l[i].copy_state)
        ELSE IF d # <<>> THEN Report(d[1], d[2])
        ELSE Report(None, "NotCopied")

\* a get_torrents call: the daemon's torrents and what is reported for them
GetEv(ok, ts, rs) ==
    [kind |-> "getTorrents", hash |-> "-", ok |-> ok, rm |-> TRUE,
     torrents |-> ts, reports |-> rs]

\* the command get_torrents with the in-memory configuration and ledger
get_torrents(R) ==
    /\ \E r \in R :
        IF make_trans_client(memCfg) /\ r.status = "ok"
        THEN ev' = GetEv(TRUE, r.torrents,
                         [k \in 1..Len(r.torrents) |->
                            get_torrents_map(mem, dstFs, memCfg, r.torrents[k])])
        ELSE ev' = GetEv(FALSE, <<>>, <<>>)
    /\ UNCHANGED <<file, mem, cfgFile, memCfg, dstFs, permit, pc, config,
                   ledger, torrents, pending, cur, prog, copyOk, crashed, log,
                   snap, saveFailed, adds, faults, saved, nsaves, tree,
                   setCall, category>>

\* the command next to add_download and to the cycles of the task, with a
\* daemon the task reaches and no I/O error
ReportNext ==
    \/ get_torrents(AllFetches)
    \/ LiveNext

ReportSpec == Init /\ [][ReportNext]_vars

(* C38 *)

\* what the ledger l holds for the daemon torrent t: the destination and
\* copy_state of its entry, or none
Held(l, t) ==
    LET i == IF t.hash_string = None THEN 0 ELSE FindEntry(l, t.hash_string)
    IN  IF i # 0 THEN Report(l[i].destination, l[i].copy_state)
        ELSE Report(None, "NotCopied")

\* C38 as claimed: get_torrents changes neither the in-memory ledger nor
\* the ledger file, and what it reports for each torrent of the daemon's
\* response is what the same ledger holds for that torrent after the
\* reconciliation pass over the same response, configuration and
\* destinations.
C38_ReportAgreesWithReconciler ==
    /\ [][(ev'.kind = "getTorrents") => (mem' = mem /\ file' = file)]_vars
    /\ []((ev.kind = "getTorrents" /\ ev.ok)
            => \A k \in 1..Len(ev.torrents) :
                 ev.reports[k]
                   = Held(ReconcileLoop(mem, FALSE, ev.torrents, dstFs,
                                        memCfg).ledger,
                          ev.torrents[k]))

-----------------------------------------------------------------------------
(* Destination::from_category and Destination::from_category_str *)

\* the category codes up to this one are all tried
MaxCategory == 999

\* codes of more than three digits that begin or end like a video code
WideCategories == {2010, 2050, 2080, 2990, 1201, 1205, 20100, 2147483647}

Categories == 0..MaxCategory \cup WideCategories

Digit(d) == <<"0", "1", "2", "3", "4", "5", "6", "7", "8", "9">>[d + 1]

\* u32::to_string: the decimal digits of n, most significant first
RECURSIVE to_string(_)
to_string(n) ==
    IF n < 10 THEN <<Digit(n)>>
    ELSE Append(to_string(n \div 10), Digit(n % 10))

\* Some(d) is <<d>>, None is <<>>
from_category_str(cat) ==
    IF cat \in { <<"2", "0", "1">>, <<"2", "0", "2">>, <<"2", "0", "7">>,
                 <<"2", "0", "9">>, <<"2", "9", "9">> }
    THEN <<"Movies">>
    ELSE IF cat \in { <<"2", "0", "5">>, <<"2", "0", "8">> }
    THEN <<"Shows">>
    ELSE <<>>

\* mutant: 209 (3D) is not a video category
from_categoryNo3D(cat) ==
    IF cat \in {201, 202, 207, 299} THEN <<"Movies">>
    ELSE IF cat \in {205, 208} THEN <<"Shows">>
    ELSE <<>>

from_category(cat) ==
    IF cat \in {201, 202, 207, 209, 299} THEN <<"Movies">>
    ELSE IF cat \in {205, 208} THEN <<"Shows">>
    ELSE <<>>

\* the results of the two functions for one category code
CategoryEv(byNumber, byString) ==
    [kind |-> "fromCategory", hash |-> "-", ok |-> TRUE, rm |-> TRUE,
     byNumber |-> byNumber, byString |-> byString]

\* any category code is about to be mapped
CategoryInit ==
    /\ category \in Categories
    /\ pc = "call"
    /\ tree = Absent
    /\ setCall = <<>>
    /\ copyOk = TRUE
    /\ file = <<>>
    /\ mem = <<>>
    /\ cfgFile = DefaultConfig
    /\ memCfg = DefaultConfig
    /\ dstFs = NoDst
    /\ permit = FALSE
    /\ config = DefaultConfig
    /\ ledger = <<>>
    /\ torrents = <<>>
    /\ pending = <<>>
    /\ cur = 0
    /\ prog = 0
    /\ crashed = FALSE
    /\ ev = Ev("init", "-", TRUE)
    /\ log = <<>>
    /\ snap = Snap(<<>>, NoDst, <<>>)
    /\ saved = <<>>
    /\ nsaves = 0
    /\ saveFailed = FALSE
    /\ adds = 0
    /\ faults = 0

\* the code is mapped as a number and as its decimal string
FromCategory ==
    /\ pc = "call"
    /\ pc' = "returned"
    /\ ev' = CategoryEv(from_category(category),
                        from_category_str(to_string(category)))
    /\ UNCHANGED <<file, mem, cfgFile, memCfg, dstFs, permit, config, ledger,
                   torrents, pending, cur, prog, copyOk, crashed, log, snap,
                   saveFailed, adds, faults, saved, nsaves, tree, setCall,
                   category>>

CategoryNext == FromCategory

CategorySpec == CategoryInit /\ [][CategoryNext]_vars

(* C39 *)

\* C39: for every category code, from_category of the number equals
\* from_category_str of its decimal string: Movies for 201, 202, 207, 209
\* and 299, Shows for 205 and 208, None for every other code.
C39_CategoryFunctionsAgree ==
    ev.kind = "fromCategory"
        => /\ ev.byNumber = ev.byString
           /\ ev.byNumber = IF category \in {201, 202, 207, 209, 299}
                            THEN <<"Movies">>
                            ELSE IF category \in {205, 208}
                            THEN <<"Shows">>
                            ELSE <<>>

\* the code 209 has been mapped, to Movies by both functions
C39_Witness ==
    /\ ev.kind = "fromCategory"
    /\ category = 209
    /\ ev.byNumber = <<"Movies">>
    /\ ev.byString = <<"Movies">>

====
